---- MODULE Spec2Model ----
(***************************************************************************)
(* Model of src/pipeline.py: a three-stage batch pipeline (stage, process, *)
(* report) over CSV files, sequenced by main, which re-reads each stage's  *)
(* output from disk before the next stage.                                 *)
(*                                                                         *)
(* A DataFrame is a record [kind, cols, rows]: cols is the set of column   *)
(* names and rows a sequence of functions from cols to cell values.  A     *)
(* missing cell (pandas NaN) is the value NaN.  A file on disk is a record *)
(* of the same shape whose cells are text: to_csv writes a missing cell as *)
(* the empty field and read_csv parses the pandas default NA spellings     *)
(* back to NaN.                                                            *)
(***************************************************************************)
EXTENDS Integers, Sequences, FiniteSets, TLC

VARIABLES disk, log, pc, df, df_outcomes, df_staged, df_primary, run, before, calls

vars == <<disk, log, pc, df, df_outcomes, df_staged, df_primary, run, before, calls>>

(* ------------------------------ bounds -------------------------------- *)

\* Most rows of a table drawn as the input of a single stage.
MaxRows == 2

\* Most successive runs of main.
MaxRuns == 2

(* ----------------------------- constants ------------------------------ *)

RAW_DATA_FILE == "2022-01-cheshire-street.csv"
OUTCOMES_DATA_FILE == "2022-01-cheshire-outcomes.csv"
STAGED_DATA_FILE == "staged_cheshire_street.csv"
PROCESSING_DATA_FILE == "processed_cheshire_street.csv"
REPORTING_DATA_FILE == "reporting_cheshire_street.csv"

Paths ==
  {RAW_DATA_FILE, OUTCOMES_DATA_FILE, STAGED_DATA_FILE, PROCESSING_DATA_FILE,
   REPORTING_DATA_FILE}

OutputPaths == {STAGED_DATA_FILE, PROCESSING_DATA_FILE, REPORTING_DATA_FILE}

CrimeID == "Crime ID"
CrimeType == "Crime type"
LastOutcome == "Last outcome category"
OutcomeType == "Outcome type"
FinalOutcome == "Final Outcome"
BroadCategory == "Broad Outcome Category"
Count == "Count"

\* cols_to_delete of del_values_street
cols_to_delete == {"Reported by", "Context", "Location"}

\* The three membership lists of categorize_outcome.
NoFurtherActionList ==
  {"Unable to prosecute suspect", "Investigation complete; no suspect identified",
   "Status update unavailable"}

NonCriminalList ==
  {"Local resolution", "Offender given a caution",
   "Action to be taken by another organisation", "Awaiting court outcome"}

PublicInterestList ==
  {"Further investigation is not in the public interest",
   "Further action is not in the public interest",
   "Formal action is not in the public interest"}

Labels ==
  {"No Further Action", "Non-criminal Outcome", "Public Interest Consideration",
   "Unknown"}

(* --------------------------- tables and files ------------------------- *)

\* pandas' missing value.
NaN == "NaN"

\* Spellings read_csv parses as a missing value (a subset of pandas' defaults).
NaValues == {"", "NA", "NaN", "N/A", "null"}

None == [kind |-> "None", cols |-> {}, rows |-> <<>>]

DataFrame(cols, rows) == [kind |-> "DataFrame", cols |-> cols, rows |-> rows]

Absent == [kind |-> "absent", cols |-> {}, rows |-> <<>>]

\* Content read_csv rejects with a ValueError (ParserError, EmptyDataError).
Malformed == [kind |-> "malformed", cols |-> {}, rows |-> <<>>]

\* A path that exists but can neither be opened for reading nor for writing
\* (a directory): open raises an OSError, which is no ValueError.
Directory == [kind |-> "directory", cols |-> {}, rows |-> <<>>]

Csv(cols, rows) == [kind |-> "csv", cols |-> cols, rows |-> rows]

Raise == [raised |-> TRUE, value |-> None]

Return(v) == [raised |-> FALSE, value |-> v]

Last(s) == s[Len(s)]

\* Lexicographic order of the cell values the model uses, for groupby's sort.
SortedValues ==
  <<"Anti-social behaviour", "Burglary", "No Further Action", "Non-criminal Outcome",
    "Public Interest Consideration", "Unknown">>

\* DataFrame.to_csv, one cell: a missing value is written as the empty field.
CellText(c, v) == IF c = Count THEN ToString(v) ELSE IF v = NaN THEN "" ELSE v

\* read_csv, one cell.
ParseCell(t) == IF t \in NaValues THEN NaN ELSE t

ToCsvText(t) ==
  Csv(t.cols, [i \in 1..Len(t.rows) |-> [c \in t.cols |-> CellText(c, t.rows[i][c])]])

\* Faulty variant: the file is opened for appending.
to_csv_Append(d, t, output_file) ==
  IF d[output_file].kind = "directory"
  THEN [raised |-> TRUE, disk |-> d]
  ELSE [raised |-> FALSE,
        disk |-> [d EXCEPT ![output_file] =
                    IF d[output_file].kind = "csv"
                    THEN Csv(d[output_file].cols, d[output_file].rows \o ToCsvText(t).rows)
                    ELSE ToCsvText(t)]]

\* df.to_csv(output_file, index=False): raises when the path cannot be opened.
to_csv(d, t, output_file) ==
  IF d[output_file].kind = "directory"
  THEN [raised |-> TRUE, disk |-> d]
  ELSE [raised |-> FALSE, disk |-> [d EXCEPT ![output_file] = ToCsvText(t)]]

\* pd.read_csv on a parsable file.
read_csv(f) ==
  DataFrame(f.cols, [i \in 1..Len(f.rows) |-> [c \in f.cols |-> ParseCell(f.rows[i][c])]])

Info(m, a) == [level |-> "INFO", msg |-> m, arg |-> a]

Error(m, a) == [level |-> "ERROR", msg |-> m, arg |-> a]

Critical(m, a) == [level |-> "CRITICAL", msg |-> m, arg |-> a]

(* ------------------------------ ingest_data --------------------------- *)

\* Faulty variant: no test of os.path.exists, the FileNotFoundError leaves the function.
ingest_data_NoExistsTest(d, file_path) ==
  LET f == d[file_path]
      start == Info("Starting data ingestion", file_path)
  IN CASE f.kind = "csv" ->
            [raised |-> FALSE, value |-> read_csv(f),
             log |-> <<start, Info("Data ingestion completed successfully", file_path)>>]
       [] f.kind = "malformed" ->
            [raised |-> FALSE, value |-> None,
             log |-> <<start, Error("Error reading the CSV file", file_path)>>]
       [] OTHER ->
            [raised |-> TRUE, value |-> None, log |-> <<start>>]

\* The result of ingest_data(file_path) on disk d: the value returned, whether
\* an exception left the function, and the log entries it made.
ingest_data(d, file_path) ==
  LET f == d[file_path]
      start == Info("Starting data ingestion", file_path)
  IN CASE f.kind = "absent" ->
            [raised |-> FALSE, value |-> None,
             log |-> <<start, Error("File not found", file_path)>>]
       [] f.kind = "csv" ->
            [raised |-> FALSE, value |-> read_csv(f),
             log |-> <<start, Info("Data ingestion completed successfully", file_path)>>]
       [] f.kind = "malformed" ->
            [raised |-> FALSE, value |-> None,
             log |-> <<start, Error("Error reading the CSV file", file_path)>>]
       [] OTHER ->
            [raised |-> TRUE, value |-> None, log |-> <<start>>]

(* ------------------------------ merge_data ---------------------------- *)

\* Faulty variant: an inner join, which drops a left row without a match.
JoinRow_Inner(cols, lrow, rrows, name) ==
  LET hits == SelectSeq(rrows, LAMBDA r : r[CrimeID] = lrow[CrimeID])
  IN [j \in 1..Len(hits) |->
        [c \in cols \cup {name} |-> IF c = name THEN hits[j][OutcomeType] ELSE lrow[c]]]

\* The rows a left row yields in a left join: one per right row with the same
\* key, in the right table's order (missing keys match each other), and one
\* with a missing right value when no right row matches.
JoinRow(cols, lrow, rrows, name) ==
  LET hits == SelectSeq(rrows, LAMBDA r : r[CrimeID] = lrow[CrimeID])
      ext(v) == [c \in cols \cup {name} |-> IF c = name THEN v ELSE lrow[c]]
  IN IF Len(hits) = 0 THEN <<ext(NaN)>>
     ELSE [j \in 1..Len(hits) |-> ext(hits[j][OutcomeType])]

RECURSIVE JoinRows(_, _, _, _, _)
JoinRows(cols, lrows, rrows, name, i) ==
  IF i > Len(lrows) THEN <<>>
  ELSE JoinRow(cols, lrows[i], rrows, name) \o JoinRows(cols, lrows, rrows, name, i + 1)

\* The key column of a table with rows holds no value at all: read_csv gives
\* such a column a float dtype, any other key column the object dtype.
AllMissing(t) == Len(t.rows) > 0 /\ \A i \in 1..Len(t.rows) : t.rows[i][CrimeID] = NaN

\* pandas refuses to merge a float key column with a column of strings.
KeyDtypesClash(a, b) ==
  Len(a.rows) > 0 /\ Len(b.rows) > 0 /\ AllMissing(a) # AllMissing(b)

\* pd.merge(df, df_outcomes[['Crime ID', 'Outcome type']], how='left', on='Crime ID'):
\* a KeyError on a missing column, a ValueError on clashing key dtypes.
merge_data(a, b) ==
  IF \/ a.kind # "DataFrame" \/ b.kind # "DataFrame"
     \/ ~({CrimeID, OutcomeType} \subseteq b.cols)
     \/ CrimeID \notin a.cols
     \/ KeyDtypesClash(a, b)
  THEN Raise
  ELSE IF OutcomeType \in a.cols
       THEN \* overlapping column: pandas suffixes both sides
            LET lcols == (a.cols \ {OutcomeType}) \cup {"Outcome type_x"}
                lrows == [i \in 1..Len(a.rows) |->
                            [c \in lcols |-> IF c = "Outcome type_x"
                                             THEN a.rows[i][OutcomeType]
                                             ELSE a.rows[i][c]]]
            IN Return(DataFrame(lcols \cup {"Outcome type_y"},
                                JoinRows(lcols, lrows, b.rows, "Outcome type_y", 1)))
       ELSE Return(DataFrame(a.cols \cup {OutcomeType},
                             JoinRows(a.cols, a.rows, b.rows, OutcomeType, 1)))

\* df.drop(columns=cols_to_delete, inplace=True): KeyError on a missing column.
del_values_street(t) ==
  IF ~(cols_to_delete \subseteq t.cols) THEN Raise
  ELSE LET keep == t.cols \ cols_to_delete
       IN Return(DataFrame(keep, [i \in 1..Len(t.rows) |-> [c \in keep |-> t.rows[i][c]]]))

(* ------------------------ finaloutcome, categorize -------------------- *)

\* Faulty variant: the fallback column is preferred.
FinalOutcomeOf_LastFirst(row) ==
  IF row[LastOutcome] # NaN THEN row[LastOutcome] ELSE row[OutcomeType]

\* The lambda of finaloutcome, on one row.
FinalOutcomeOf(row) ==
  IF row[OutcomeType] # NaN THEN row[OutcomeType] ELSE row[LastOutcome]

\* df['Final Outcome'] = df.apply(lambda row: ..., axis=1).  On a table with
\* no rows apply returns a copy of the frame, and assigning a frame of several
\* columns to one column raises a ValueError.
finaloutcome(t) ==
  IF \/ t.kind # "DataFrame"
     \/ ~({OutcomeType, LastOutcome} \subseteq t.cols)
     \/ Len(t.rows) = 0
  THEN Raise
  ELSE LET cols == t.cols \cup {FinalOutcome}
       IN Return(DataFrame(cols,
            [i \in 1..Len(t.rows) |->
               [c \in cols |-> IF c = FinalOutcome THEN FinalOutcomeOf(t.rows[i])
                               ELSE t.rows[i][c]]]))

\* Faulty variant: the second list is not consulted.
categorize_outcome_TwoLists(outcome) ==
  IF outcome \in NoFurtherActionList THEN "No Further Action"
  ELSE IF outcome \in PublicInterestList THEN "Public Interest Consideration"
  ELSE "Unknown"

categorize_outcome(outcome) ==
  IF outcome \in NoFurtherActionList THEN "No Further Action"
  ELSE IF outcome \in NonCriminalList THEN "Non-criminal Outcome"
  ELSE IF outcome \in PublicInterestList THEN "Public Interest Consideration"
  ELSE "Unknown"

\* df['Broad Outcome Category'] = df['Final Outcome'].apply(categorize_outcome)
apply_categorization(t) ==
  IF t.kind # "DataFrame" \/ FinalOutcome \notin t.cols THEN Raise
  ELSE LET cols == t.cols \cup {BroadCategory}
       IN Return(DataFrame(cols,
            [i \in 1..Len(t.rows) |->
               [c \in cols |-> IF c = BroadCategory
                               THEN categorize_outcome(t.rows[i][FinalOutcome])
                               ELSE t.rows[i][c]]]))

(* ------------------------------- groupby ------------------------------ *)

\* Number of rows of t whose two key columns hold x and y.
GroupSize(t, x, y) ==
  Cardinality({i \in 1..Len(t.rows) :
                 t.rows[i][CrimeType] = x /\ t.rows[i][BroadCategory] = y})

\* The groups of one first-key value, in the order of the second key.
RECURSIVE GroupsOf(_, _, _)
GroupsOf(t, x, j) ==
  IF j > Len(SortedValues) THEN <<>>
  ELSE LET y == SortedValues[j]
           n == GroupSize(t, x, y)
       IN (IF n > 0
           THEN <<[c \in {CrimeType, BroadCategory, Count} |->
                     IF c = CrimeType THEN x ELSE IF c = BroadCategory THEN y ELSE n]>>
           ELSE <<>>) \o GroupsOf(t, x, j + 1)

RECURSIVE Groups(_, _)
Groups(t, i) ==
  IF i > Len(SortedValues) THEN <<>>
  ELSE GroupsOf(t, SortedValues[i], 1) \o Groups(t, i + 1)

\* df.groupby(['Crime type', 'Broad Outcome Category']).size().reset_index(name='Count'):
\* groupby sorts the keys and, by default (dropna=True), leaves out every row
\* with a missing key; SortedValues does not hold NaN.
groupby_size(t) ==
  IF t.kind # "DataFrame" \/ ~({CrimeType, BroadCategory} \subseteq t.cols) THEN Raise
  ELSE Return(DataFrame({CrimeType, BroadCategory, Count}, Groups(t, 1)))

(* ------------------------------ the stages ---------------------------- *)

\* stage_data(df, df_outcomes, output_file): the disk it leaves and the log
\* entries it makes.  Every exception of the join, the drop and the write is
\* caught and logged; nothing is returned.
stage_data(d, a, b, output_file) ==
  LET start == Info("Starting data staging", "")
      m == merge_data(a, b)
      t == IF m.raised THEN Raise ELSE del_values_street(m.value)
      w == IF t.raised THEN [raised |-> TRUE, disk |-> d] ELSE to_csv(d, t.value, output_file)
  IN IF w.raised
     THEN [disk |-> d, log |-> <<start, Error("Error during data staging", "")>>]
     ELSE [disk |-> w.disk, log |-> <<start, Info("Data staging completed successfully", "")>>]

\* processing_data(df, output_file)
processing_data(d, a, output_file) ==
  LET start == Info("Starting Data Processing", "")
      f == finaloutcome(a)
      t == IF f.raised THEN Raise ELSE apply_categorization(f.value)
      w == IF t.raised THEN [raised |-> TRUE, disk |-> d] ELSE to_csv(d, t.value, output_file)
  IN IF w.raised
     THEN [disk |-> d, log |-> <<start, Error("Error during data processing", "")>>]
     ELSE [disk |-> w.disk, log |-> <<start, Info("Data Processing completed successfully", "")>>]

\* reporting_data(df, output_file)
reporting_data(d, a, output_file) ==
  LET start == Info("Starting reporting data aggregation", "")
      t == groupby_size(a)
      w == IF t.raised THEN [raised |-> TRUE, disk |-> d] ELSE to_csv(d, t.value, output_file)
  IN IF w.raised
     THEN [disk |-> d, log |-> <<start, Error("Error during reporting data aggregation", "")>>]
     ELSE [disk |-> w.disk,
           log |-> <<start, Info("Reporting data aggregation completed successfully", "")>>]

(* --------------------------------- main ------------------------------- *)

Started == Info("Pipeline execution started", "")

Completed == Info("Pipeline execution completed successfully", "")

Failed == Critical("Pipeline execution failed", "")

\* The three output files, as they are on disk d.
Outputs(d) == [p \in OutputPaths |-> d[p]]

\* main is entered: the first log entry of a run.
MainStart ==
  /\ pc \in {"main", "done"}
  /\ run < MaxRuns
  /\ run' = run + 1
  /\ log' = Append(log, Started)
  /\ before' = Outputs(disk)
  /\ calls' = <<>>
  /\ df' = None /\ df_outcomes' = None /\ df_staged' = None /\ df_primary' = None
  /\ pc' = "ingest_raw"
  /\ UNCHANGED disk

\* df = ingest_data(RAW_DATA_FILE); an exception that leaves ingest_data is
\* caught by main's handler, which logs it at critical severity.
IngestRaw ==
  /\ pc = "ingest_raw"
  /\ LET r == ingest_data(disk, RAW_DATA_FILE)
     IN /\ df' = r.value
        /\ log' = log \o r.log \o (IF r.raised THEN <<Failed>> ELSE <<>>)
        /\ pc' = IF r.raised THEN "done" ELSE "ingest_outcomes"
  /\ calls' = Append(calls, <<"ingest_data", RAW_DATA_FILE>>)
  /\ UNCHANGED <<disk, df_outcomes, df_staged, df_primary, run, before>>

\* Faulty variant: the test of line 142 with 'or' for 'and'.
IngestOutcomes_Or ==
  /\ pc = "ingest_outcomes"
  /\ LET r == ingest_data(disk, OUTCOMES_DATA_FILE)
     IN /\ df_outcomes' = r.value
        /\ log' = log \o r.log \o (IF r.raised THEN <<Failed>> ELSE <<>>)
        /\ pc' = IF r.raised THEN "done"
                 ELSE IF df.kind # "None" \/ r.value.kind # "None" THEN "stage_data"
                 ELSE "completed"
  /\ calls' = Append(calls, <<"ingest_data", OUTCOMES_DATA_FILE>>)
  /\ UNCHANGED <<disk, df, df_staged, df_primary, run, before>>

\* df_outcomes = ingest_data(OUTCOMES_DATA_FILE), then the test of line 142.
IngestOutcomes ==
  /\ pc = "ingest_outcomes"
  /\ LET r == ingest_data(disk, OUTCOMES_DATA_FILE)
     IN /\ df_outcomes' = r.value
        /\ log' = log \o r.log \o (IF r.raised THEN <<Failed>> ELSE <<>>)
        /\ pc' = IF r.raised THEN "done"
                 ELSE IF df.kind # "None" /\ r.value.kind # "None" THEN "stage_data"
                 ELSE "completed"
  /\ calls' = Append(calls, <<"ingest_data", OUTCOMES_DATA_FILE>>)
  /\ UNCHANGED <<disk, df, df_staged, df_primary, run, before>>

\* Faulty variant: stage_data without its try/except, the exception reaches main.
StageData_Propagates ==
  /\ pc = "stage_data"
  /\ LET r == stage_data(disk, df, df_outcomes, STAGED_DATA_FILE)
     IN /\ disk' = r.disk
        /\ log' = IF Last(r.log).level = "ERROR" THEN log \o <<r.log[1], Failed>>
                  ELSE log \o r.log
        /\ pc' = IF Last(r.log).level = "ERROR" THEN "done" ELSE "ingest_staged"
  /\ calls' = Append(calls, <<"stage_data", STAGED_DATA_FILE>>)
  /\ UNCHANGED <<df, df_outcomes, df_staged, df_primary, run, before>>

StageData ==
  /\ pc = "stage_data"
  /\ LET r == stage_data(disk, df, df_outcomes, STAGED_DATA_FILE)
     IN /\ disk' = r.disk
        /\ log' = log \o r.log
  /\ pc' = "ingest_staged"
  /\ calls' = Append(calls, <<"stage_data", STAGED_DATA_FILE>>)
  /\ UNCHANGED <<df, df_outcomes, df_staged, df_primary, run, before>>

\* Faulty variant: an absent staged table ends the run before processing.
IngestStaged_ShortCircuit ==
  /\ pc = "ingest_staged"
  /\ LET r == ingest_data(disk, STAGED_DATA_FILE)
     IN /\ df_staged' = r.value
        /\ log' = log \o r.log \o (IF r.raised THEN <<Failed>> ELSE <<>>)
        /\ pc' = IF r.raised THEN "done"
                 ELSE IF r.value.kind = "None" THEN "completed" ELSE "processing_data"
  /\ calls' = Append(calls, <<"ingest_data", STAGED_DATA_FILE>>)
  /\ UNCHANGED <<disk, df, df_outcomes, df_primary, run, before>>

IngestStaged ==
  /\ pc = "ingest_staged"
  /\ LET r == ingest_data(disk, STAGED_DATA_FILE)
     IN /\ df_staged' = r.value
        /\ log' = log \o r.log \o (IF r.raised THEN <<Failed>> ELSE <<>>)
        /\ pc' = IF r.raised THEN "done" ELSE "processing_data"
  /\ calls' = Append(calls, <<"ingest_data", STAGED_DATA_FILE>>)
  /\ UNCHANGED <<disk, df, df_outcomes, df_primary, run, before>>

ProcessingData ==
  /\ pc = "processing_data"
  /\ LET r == processing_data(disk, df_staged, PROCESSING_DATA_FILE)
     IN /\ disk' = r.disk
        /\ log' = log \o r.log
  /\ pc' = "ingest_processed"
  /\ calls' = Append(calls, <<"processing_data", PROCESSING_DATA_FILE>>)
  /\ UNCHANGED <<df, df_outcomes, df_staged, df_primary, run, before>>

IngestProcessed ==
  /\ pc = "ingest_processed"
  /\ LET r == ingest_data(disk, PROCESSING_DATA_FILE)
     IN /\ df_primary' = r.value
        /\ log' = log \o r.log \o (IF r.raised THEN <<Failed>> ELSE <<>>)
        /\ pc' = IF r.raised THEN "done" ELSE "reporting_data"
  /\ calls' = Append(calls, <<"ingest_data", PROCESSING_DATA_FILE>>)
  /\ UNCHANGED <<disk, df, df_outcomes, df_staged, run, before>>

ReportingData ==
  /\ pc = "reporting_data"
  /\ LET r == reporting_data(disk, df_primary, REPORTING_DATA_FILE)
     IN /\ disk' = r.disk
        /\ log' = log \o r.log
  /\ pc' = "completed"
  /\ calls' = Append(calls, <<"reporting_data", REPORTING_DATA_FILE>>)
  /\ UNCHANGED <<df, df_outcomes, df_staged, df_primary, run, before>>

\* logging.info("Pipeline execution completed successfully")
MainComplete ==
  /\ pc = "completed"
  /\ log' = Append(log, Completed)
  /\ pc' = "done"
  /\ UNCHANGED <<disk, df, df_outcomes, df_staged, df_primary, run, before, calls>>

(* ------------------------------ input sets ---------------------------- *)

SeqsUpTo(S, n) == UNION {[1..k -> S] : k \in 0..n}

PrimaryCols == {CrimeID, CrimeType, LastOutcome} \cup cols_to_delete

StagedCols == {CrimeID, CrimeType, LastOutcome, OutcomeType}

ProcessedCols == StagedCols \cup {FinalOutcome, BroadCategory}

OutcomeCols == {CrimeID, OutcomeType}

PrimaryRow(id, type, last) ==
  [c \in PrimaryCols |->
     IF c = CrimeID THEN id ELSE IF c = CrimeType THEN type
     ELSE IF c = LastOutcome THEN last ELSE "x"]

OutcomeRow(id, ot) == [c \in OutcomeCols |-> IF c = CrimeID THEN id ELSE ot]

StagedRow(id, type, last, ot) ==
  [c \in StagedCols |->
     IF c = CrimeID THEN id ELSE IF c = CrimeType THEN type
     ELSE IF c = LastOutcome THEN last ELSE ot]

ProcessedRow(id, type, last, ot, fin, cat) ==
  [c \in ProcessedCols |->
     IF c = CrimeID THEN id ELSE IF c = CrimeType THEN type
     ELSE IF c = LastOutcome THEN last ELSE IF c = OutcomeType THEN ot
     ELSE IF c = FinalOutcome THEN fin ELSE cat]

\* Outcome values: every listed value, one unlisted value and the missing one.
OutcomeValues ==
  NoFurtherActionList \cup NonCriminalList \cup PublicInterestList
    \cup {"Under investigation", NaN}

EmptyDisk == [p \in Paths |-> Absent]

(* --------------------- files the pipeline starts from ----------------- *)

OneOrTwo(S) == {<<r>> : r \in S} \cup {<<r, s>> : r \in S, s \in S}

\* Rows of the primary file, as text.
RawTextRows ==
  {PrimaryRow("c1", "Burglary", "Status update unavailable"),
   PrimaryRow("", "Anti-social behaviour", ""),
   PrimaryRow("c1", "NA", "Under investigation")}

\* Rows of the outcomes file, as text.
OutcomeTextRows ==
  {OutcomeRow("c1", "Local resolution"), OutcomeRow("c1", ""),
   OutcomeRow("", "Offender given a caution")}

\* A primary file without the 'Location' column: the drop of stage_data raises.
RawWithoutLocation ==
  Csv(PrimaryCols \ {"Location"},
      <<[c \in PrimaryCols \ {"Location"} |->
           PrimaryRow("c1", "Burglary", "Status update unavailable")[c]]>>)

RawFiles ==
  {Absent, Malformed, Directory, RawWithoutLocation}
    \cup {Csv(PrimaryCols, s) : s \in OneOrTwo(RawTextRows)}

OutcomesFiles ==
  {Absent, Malformed, Directory}
    \cup {Csv(OutcomeCols, s) : s \in {<<>>} \cup OneOrTwo(OutcomeTextRows)}

\* Output files left by an earlier run against other inputs.
StaleStaged ==
  Csv(StagedCols, <<StagedRow("c9", "Burglary", "", "Awaiting court outcome")>>)

StaleProcessed ==
  Csv(ProcessedCols,
      <<ProcessedRow("c9", "Burglary", "", "Awaiting court outcome",
                     "Awaiting court outcome", "Non-criminal Outcome")>>)

StaleReporting ==
  Csv({CrimeType, BroadCategory, Count},
      <<[c \in {CrimeType, BroadCategory, Count} |->
           IF c = CrimeType THEN "Burglary"
           ELSE IF c = BroadCategory THEN "Non-criminal Outcome" ELSE "1"]>>)

InitialDisks ==
  {d \in [Paths -> RawFiles \cup OutcomesFiles
                     \cup {StaleStaged, StaleProcessed, StaleReporting}] :
     /\ d[RAW_DATA_FILE] \in RawFiles
     /\ d[OUTCOMES_DATA_FILE] \in OutcomesFiles
     /\ d[STAGED_DATA_FILE] \in {Absent, Directory, StaleStaged}
     /\ d[PROCESSING_DATA_FILE] \in {Absent, Directory, StaleProcessed}
     /\ d[REPORTING_DATA_FILE] \in {Absent, Directory, StaleReporting}}

(* ---------------------------- specifications -------------------------- *)

\* The pipeline: main run up to MaxRuns times against the files on disk.
Init ==
  /\ disk \in InitialDisks
  /\ log = <<>>
  /\ pc = "main"
  /\ df = None /\ df_outcomes = None /\ df_staged = None /\ df_primary = None
  /\ run = 0
  /\ before = Outputs(disk)
  /\ calls = <<>>

Next ==
  \/ MainStart
  \/ IngestRaw
  \/ IngestOutcomes
  \/ StageData
  \/ IngestStaged
  \/ ProcessingData
  \/ IngestProcessed
  \/ ReportingData
  \/ MainComplete

Spec == Init /\ [][Next]_vars

\* In-memory tables a single stage is applied to.
PrimaryTables ==
  {DataFrame(PrimaryCols, s) :
     s \in SeqsUpTo({PrimaryRow(id, "Burglary", last) :
                       id \in {NaN, "c1", "c2"},
                       last \in {NaN, "Status update unavailable"}}, MaxRows)}

OutcomeTables ==
  {DataFrame(OutcomeCols, s) :
     s \in SeqsUpTo({OutcomeRow(id, ot) :
                       id \in {NaN, "c1", "c2"},
                       ot \in {NaN, "Local resolution"}}, MaxRows)}

StagedTables ==
  {DataFrame(StagedCols, s) :
     s \in SeqsUpTo({StagedRow("c1", "Burglary", last, ot) :
                       last \in {NaN, "Status update unavailable", "Under investigation"},
                       ot \in OutcomeValues}, MaxRows)}

ProcessedTables ==
  {DataFrame(ProcessedCols, s) :
     s \in SeqsUpTo({ProcessedRow("c1", type, NaN, NaN, NaN, cat) :
                       type \in {NaN, "Burglary", "Anti-social behaviour"},
                       cat \in Labels}, MaxRows)}

InitLocals ==
  /\ disk = EmptyDisk
  /\ log = <<>>
  /\ run = 1
  /\ before = Outputs(EmptyDisk)
  /\ calls = <<>>

\* stage_data applied to a primary table and an outcomes table.
InitStage ==
  /\ InitLocals
  /\ pc = "stage_data"
  /\ df \in PrimaryTables /\ df_outcomes \in OutcomeTables
  /\ df_staged = None /\ df_primary = None

SpecStage == InitStage /\ [][StageData]_vars

\* processing_data applied to a staged table.
InitProcess ==
  /\ InitLocals
  /\ pc = "processing_data"
  /\ df_staged \in StagedTables
  /\ df = None /\ df_outcomes = None /\ df_primary = None

SpecProcess == InitProcess /\ [][ProcessingData]_vars

\* reporting_data applied to a processed table.
InitReport ==
  /\ InitLocals
  /\ pc = "reporting_data"
  /\ df_primary \in ProcessedTables
  /\ df = None /\ df_outcomes = None /\ df_staged = None

SpecReport == InitReport /\ [][ReportingData]_vars

(* ------------------------------- helpers ------------------------------ *)

\* The log entries of the current run: from its 'Pipeline execution started'.
RunLog ==
  IF \E i \in 1..Len(log) : log[i] = Started
  THEN LET k == CHOOSE i \in 1..Len(log) :
                  /\ log[i] = Started
                  /\ \A j \in (i + 1)..Len(log) : log[j] # Started
       IN SubSeq(log, k, Len(log))
  ELSE log

InRunLog(e) == \E i \in 1..Len(RunLog) : RunLog[i] = e

StagingFailed == InRunLog(Error("Error during data staging", ""))

ProcessingFailed == InRunLog(Error("Error during data processing", ""))

ReportingFailed == InRunLog(Error("Error during reporting data aggregation", ""))

\* The calls of a run that reaches every step.
FullSequence ==
  <<<<"ingest_data", RAW_DATA_FILE>>, <<"ingest_data", OUTCOMES_DATA_FILE>>,
    <<"stage_data", STAGED_DATA_FILE>>, <<"ingest_data", STAGED_DATA_FILE>>,
    <<"processing_data", PROCESSING_DATA_FILE>>, <<"ingest_data", PROCESSING_DATA_FILE>>,
    <<"reporting_data", REPORTING_DATA_FILE>>>>

StageCalled ==
  \E i \in 1..Len(calls) : calls[i][1] \in {"stage_data", "processing_data", "reporting_data"}

\* Number of outcome rows whose key equals the key of primary row i.
Matches(i) ==
  Cardinality({j \in 1..Len(df_outcomes.rows) :
                 df_outcomes.rows[j][CrimeID] = df.rows[i][CrimeID]})

\* Rows the first n primary rows yield in the join.
RECURSIVE JoinedUpTo(_)
JoinedUpTo(n) ==
  IF n = 0 THEN 0 ELSE JoinedUpTo(n - 1) + (IF Matches(n) = 0 THEN 1 ELSE Matches(n))

(* ------------------------------- claims ------------------------------- *)

\* C1: in the processed table, every row's 'Final Outcome' is the staged row's
\* 'Outcome type' when that is not missing and its 'Last outcome category'
\* otherwise; it is not missing when either of the two is not missing.
C1_FinalOutcome ==
  (pc = "ingest_processed" /\ disk[PROCESSING_DATA_FILE].kind = "csv") =>
    LET out == read_csv(disk[PROCESSING_DATA_FILE])
    IN /\ Len(out.rows) = Len(df_staged.rows)
       /\ \A i \in 1..Len(out.rows) :
            LET ot == df_staged.rows[i][OutcomeType]
                last == df_staged.rows[i][LastOutcome]
                fin == out.rows[i][FinalOutcome]
            IN /\ ot # NaN => fin = ot
               /\ ot = NaN => fin = last
               /\ (ot # NaN \/ last # NaN) => fin # NaN

\* A processed table with a row taking 'Outcome type' and a row falling back.
C1_Witness ==
  /\ pc = "ingest_processed" /\ disk[PROCESSING_DATA_FILE].kind = "csv"
  /\ Len(df_staged.rows) = 2
  /\ df_staged.rows[1][OutcomeType] = "Local resolution"
  /\ df_staged.rows[1][LastOutcome] = "Status update unavailable"
  /\ df_staged.rows[2][OutcomeType] = NaN
  /\ df_staged.rows[2][LastOutcome] = "Under investigation"

\* C2: 'Broad Outcome Category' of every processed row is one of the four
\* labels and is decided by 'Final Outcome' alone: a value of one of the three
\* lists gets its list's label, every other value and the missing value get
\* Unknown.
C2_Categorization ==
  (pc = "ingest_processed" /\ disk[PROCESSING_DATA_FILE].kind = "csv") =>
    LET out == read_csv(disk[PROCESSING_DATA_FILE])
    IN \A i \in 1..Len(out.rows) :
         LET fin == out.rows[i][FinalOutcome]
             cat == out.rows[i][BroadCategory]
         IN /\ cat \in Labels
            /\ fin \in NoFurtherActionList => cat = "No Further Action"
            /\ fin \in NonCriminalList => cat = "Non-criminal Outcome"
            /\ fin \in PublicInterestList => cat = "Public Interest Consideration"
            /\ fin \notin NoFurtherActionList \cup NonCriminalList \cup PublicInterestList
                 => cat = "Unknown"

\* A processed table with a listed final outcome and a missing one.
C2_Witness ==
  /\ pc = "ingest_processed" /\ disk[PROCESSING_DATA_FILE].kind = "csv"
  /\ LET out == read_csv(disk[PROCESSING_DATA_FILE])
     IN /\ Len(out.rows) = 2
        /\ out.rows[1][FinalOutcome] = "Formal action is not in the public interest"
        /\ out.rows[1][BroadCategory] = "Public Interest Consideration"
        /\ out.rows[2][FinalOutcome] = NaN
        /\ out.rows[2][BroadCategory] = "Unknown"

\* C3, as claimed: the staged table has exactly as many rows as the primary
\* table, and a primary row without a matching outcome row gets a missing
\* 'Outcome type'.
C3_RowCountEqual ==
  (pc = "ingest_staged" /\ disk[STAGED_DATA_FILE].kind = "csv") =>
    /\ Len(disk[STAGED_DATA_FILE].rows) = Len(df.rows)
    /\ \A i \in 1..Len(df.rows) :
         Matches(i) = 0 => read_csv(disk[STAGED_DATA_FILE]).rows[i][OutcomeType] = NaN

\* C3, amended: every primary row yields, in order, one staged row per outcome
\* row with the same 'Crime ID' (missing IDs match each other) and one staged
\* row with a missing 'Outcome type' when there is none; so the staged table
\* never has fewer rows than the primary table, and has as many exactly when
\* no primary row matches more than one outcome row.
C3_LeftJoin ==
  (pc = "ingest_staged" /\ disk[STAGED_DATA_FILE].kind = "csv") =>
    LET out == read_csv(disk[STAGED_DATA_FILE])
    IN /\ Len(out.rows) = JoinedUpTo(Len(df.rows))
       /\ Len(out.rows) >= Len(df.rows)
       /\ (Len(out.rows) = Len(df.rows)) <=> (\A i \in 1..Len(df.rows) : Matches(i) <= 1)
       /\ \A i \in 1..Len(df.rows) :
            /\ \A k \in (JoinedUpTo(i - 1) + 1)..JoinedUpTo(i) :
                 /\ out.rows[k][CrimeID] = df.rows[i][CrimeID]
                 /\ out.rows[k][LastOutcome] = df.rows[i][LastOutcome]
            /\ Matches(i) = 0 => out.rows[JoinedUpTo(i)][OutcomeType] = NaN

\* A staged table with an unmatched primary row and a primary row that two
\* outcome rows match.
C3_Witness ==
  /\ pc = "ingest_staged" /\ disk[STAGED_DATA_FILE].kind = "csv"
  /\ Len(df.rows) = 2
  /\ Matches(1) = 0 /\ Matches(2) = 2
  /\ Len(disk[STAGED_DATA_FILE].rows) = 3

\* C4, as claimed: the reporting table has one row per distinct ('Crime type',
\* 'Broad Outcome Category') pair of the processed table, missing crime types
\* included, with the number of processed rows of that pair as its Count, and
\* the Counts add up to the processed table's row count.
C4_OneRowPerPair ==
  (pc = "completed" /\ disk[REPORTING_DATA_FILE].kind = "csv") =>
    LET rep == disk[REPORTING_DATA_FILE].rows
        pairs == {<<df_primary.rows[i][CrimeType], df_primary.rows[i][BroadCategory]>> :
                    i \in 1..Len(df_primary.rows)}
    IN /\ Len(rep) = Cardinality(pairs)
       /\ \A q \in pairs :
            \E k \in 1..Len(rep) :
              /\ ParseCell(rep[k][CrimeType]) = q[1]
              /\ rep[k][BroadCategory] = q[2]
              /\ rep[k][Count] = ToString(GroupSize(df_primary, q[1], q[2]))

\* C5: the second and every later run of main against unchanged input files
\* leaves the staged, processed and reporting files as the run before left
\* them, while the log has grown.
C5_Idempotent ==
  (pc = "done" /\ run >= 2) =>
    /\ Outputs(disk) = before
    /\ Len(log) > Len(RunLog)

\* A second run that wrote all three output files and completed.
C5_Witness ==
  /\ pc = "done" /\ run = 2
  /\ calls = FullSequence
  /\ ~StagingFailed /\ ~ProcessingFailed /\ ~ReportingFailed
  /\ Last(log) = Completed
  /\ Len(disk[REPORTING_DATA_FILE].rows) = 2

\* An initial ingestion returned an absent result (it did not raise).
RawReturnedAbsent ==
  /\ Len(calls) >= 1 /\ df = None
  /\ ~(Len(calls) = 1 /\ pc = "done")

OutcomesRaised == Len(calls) = 2 /\ pc = "done" /\ Last(log) = Failed

OutcomesReturnedAbsent == Len(calls) >= 2 /\ df_outcomes = None /\ ~OutcomesRaised

\* C6, as claimed: when an initial ingestion returns an absent result, no stage
\* is called, no output file changes, and the run ends with the completion
\* entry as the last of the log.
C6_ShortCircuitCompletes ==
  (RawReturnedAbsent \/ OutcomesReturnedAbsent) =>
    /\ ~StageCalled
    /\ Outputs(disk) = before
    /\ pc = "done" => Last(log) = Completed

\* C6, amended: when an initial ingestion returns an absent result, no stage is
\* called and no output file changes; the run ends with the completion entry
\* as the last of the log unless the primary ingestion returned absent and the
\* outcomes ingestion then raised, in which case the last entry is the
\* critical 'Pipeline execution failed'.
C6_ShortCircuit ==
  (RawReturnedAbsent \/ OutcomesReturnedAbsent) =>
    /\ ~StageCalled
    /\ Outputs(disk) = before
    /\ pc \in {"ingest_outcomes", "completed", "done"}
    /\ Len(calls) <= 2
    /\ pc = "done" => Last(log) = IF OutcomesRaised THEN Failed ELSE Completed

\* A finished run whose outcomes file was absent beside a readable primary
\* file and stale output files.
C6_Witness ==
  /\ pc = "done" /\ OutcomesReturnedAbsent /\ df # None
  /\ Last(log) = Completed
  /\ disk[STAGED_DATA_FILE] = StaleStaged

\* An exception left an ingest_data call of the current run.
IngestRaised ==
  \E i \in 1..(Len(RunLog) - 1) :
    RunLog[i].msg = "Starting data ingestion" /\ RunLog[i + 1] = Failed

\* C7, as claimed: in a run in which a stage raised (and logged the error),
\* the last log entry is the completion entry and no critical entry is logged.
C7_AlwaysCompletes ==
  (pc = "done" /\ (StagingFailed \/ ProcessingFailed \/ ReportingFailed)) =>
    /\ Last(log) = Completed
    /\ ~InRunLog(Failed)

\* C7, amended: an exception inside a stage is logged as an error by that stage
\* and main goes on to its next step; the run then ends with the completion
\* entry and no critical entry, unless a later ingest_data call raises an
\* exception that is not a ValueError, which main logs as critical.
C7_StageErrorsSwallowed ==
  /\ \A i \in 1..Len(RunLog) :
       RunLog[i] = Failed => (i > 1 /\ RunLog[i - 1].msg = "Starting data ingestion")
  /\ StagingFailed => Len(calls) >= 3 /\ pc \notin {"stage_data", "main"}
  /\ (StagingFailed /\ pc = "ingest_staged") =>
        Last(log) = Error("Error during data staging", "")
  /\ (ProcessingFailed /\ pc = "ingest_processed") =>
        Last(log) = Error("Error during data processing", "")
  /\ (ReportingFailed /\ pc = "completed") =>
        Last(log) = Error("Error during reporting data aggregation", "")
  /\ (pc = "done" /\ (StagingFailed \/ ProcessingFailed \/ ReportingFailed)) =>
        IF IngestRaised
        THEN Last(log) = Failed /\ Len(calls) \in {4, 6}
        ELSE Last(log) = Completed /\ ~InRunLog(Failed) /\ calls = FullSequence

\* A finished run in which all three stages failed and no ingestion raised.
C7_Witness ==
  /\ pc = "done"
  /\ StagingFailed /\ ProcessingFailed /\ ReportingFailed
  /\ Last(log) = Completed

\* The path the ingestion at the current position of main reads.
IngestPath ==
  CASE pc = "ingest_raw" -> RAW_DATA_FILE
    [] pc = "ingest_outcomes" -> OUTCOMES_DATA_FILE
    [] pc = "ingest_staged" -> STAGED_DATA_FILE
    [] OTHER -> PROCESSING_DATA_FILE

IngestValue ==
  CASE pc = "ingest_raw" -> df
    [] pc = "ingest_outcomes" -> df_outcomes
    [] pc = "ingest_staged" -> df_staged
    [] OTHER -> df_primary

\* C8: an ingest_data call on a path that does not exist returns None, adds to
\* the log its start entry and then exactly one error entry, 'File not found',
\* raises nothing to main and leaves every file as it was.
C8_MissingPath ==
  [][(/\ pc \in {"ingest_raw", "ingest_outcomes", "ingest_staged", "ingest_processed"}
      /\ disk[IngestPath].kind = "absent")
     => /\ IngestValue' = None
        /\ log' = log \o <<Info("Starting data ingestion", IngestPath),
                           Error("File not found", IngestPath)>>
        /\ pc' # "done"
        /\ disk' = disk]_vars

\* The ingestion of an absent staged file has returned, after a failed staging.
C8_Witness ==
  /\ pc = "processing_data"
  /\ disk[STAGED_DATA_FILE].kind = "absent"
  /\ df_staged = None
  /\ Last(log) = Error("File not found", STAGED_DATA_FILE)

\* C9, as claimed: in a run whose staging failed, the ingestion of the staged
\* path returns an absent result, so processing_data is not given a table.
C9_NoStagedTableAfterFailure ==
  (pc = "processing_data" /\ StagingFailed) => df_staged = None

\* C10: in a run in which both initial ingestions return a table and no
\* exception reaches main's handler, the calls are, once each and in this
\* order: ingest primary, ingest outcomes, stage, ingest staged, process,
\* ingest processed, report, and then the completion entry is logged, whether
\* or not a stage failed; processing and reporting are given what the
\* ingestion of the staged and of the processed file returns.
C10_FixedSequence ==
  /\ \E n \in 0..Len(FullSequence) : calls = SubSeq(FullSequence, 1, n)
  /\ (pc = "done" /\ df # None /\ df_outcomes # None /\ Last(log) # Failed) =>
        calls = FullSequence /\ Last(log) = Completed
  /\ pc = "processing_data" => df_staged = ingest_data(disk, STAGED_DATA_FILE).value
  /\ pc = "reporting_data" => df_primary = ingest_data(disk, PROCESSING_DATA_FILE).value
  /\ (pc = "completed" /\ df # None /\ df_outcomes # None) => calls = FullSequence

\* A run that went through every step although its staging failed and the
\* staged file was absent.
C10_Witness ==
  /\ pc = "done" /\ calls = FullSequence
  /\ StagingFailed /\ df_staged = None
  /\ Last(log) = Completed

====
